---------------------------- MODULE Spec2Model ----------------------------
(***************************************************************************)
(* Model of cpp_cross_platform/src/systemapi.cpp: the four exported        *)
(* functions GetComputerNameString, GetTotalPhysicalMemory,                *)
(* GetCurrentProcessID and CalculateFactorial, each called by threads that *)
(* own their arguments and their output buffer.                            *)
(*                                                                         *)
(* Fixed-width unsigned values are little-endian sequences of 16-bit       *)
(* limbs: a uint64_t is four limbs, a uint32_t two.  The operating-system  *)
(* calls the library makes are the environment: each returns a status in   *)
(* its platform's convention and the values it reports, drawn from small   *)
(* sets at the step where the library makes the call.                      *)
(***************************************************************************)
EXTENDS Integers, Sequences, FiniteSets, TLC

\* ------------------------------------------------------------------ bounds
\* Width of `int` in bits.  The source's int has 32; the loop of
\* calculateFactorialRuntime depends on the width only through INT_MAX.
IntBits == 8
\* Arguments of CalculateFactorial: -MaxNeg .. MaxN, and INT_MAX.
MaxNeg == 2
MaxN == 67
\* Arguments of CalculateFactorial where several calls are compared.
SmallN == 3
\* Threads calling the library.
NumThreads == 2
\* Bytes of caller memory at the address passed as buffer.
BufCap == 3
\* Longest host name the operating system reports.
MaxNameLen == 2

INT_MAX == 2^(IntBits - 1) - 1
INT_MIN == -INT_MAX - 1

Threads == 1 .. NumThreads
MainThread == {1}

\* ------------------------------------------------- fixed-width arithmetic
Base == 2^16

Zero64 == <<0, 0, 0, 0>>
One64 == <<1, 0, 0, 0>>

Min(a, b) == IF a < b THEN a ELSE b

\* x * k + c at the width of x: the carry out of the top limb is dropped.
RECURSIVE MulCarry(_, _, _)
MulCarry(x, k, c) ==
    IF x = <<>> THEN <<>>
    ELSE LET p == Head(x) * k + c
         IN  <<p % Base>> \o MulCarry(Tail(x), k, p \div Base)

\* x + c at the width of x.
RECURSIVE AddCarry(_, _)
AddCarry(x, c) ==
    IF x = <<>> THEN <<>>
    ELSE LET s == Head(x) + c
         IN  <<s % Base>> \o AddCarry(Tail(x), s \div Base)

\* Two's complement of x at the width of x.
Negate(x) == AddCarry([j \in 1 .. Len(x) |-> Base - 1 - x[j]], 1)

\* Zero-extension of an unsigned value to w limbs.
ZeroExtend(x, w) == x \o [j \in 1 .. (w - Len(x)) |-> 0]

\* uint64_t r; int k; r *= k.  k is converted to uint64_t (sign-extended)
\* and the product is taken modulo 2^64.  (MulU64ByIntNarrow: the product
\* of a 32-bit accumulator.)
MulU64ByIntNarrow(r, k) ==
    ZeroExtend(MulCarry(SubSeq(r, 1, 2), IF k >= 0 THEN k ELSE -k, 0), 4)
MulU64ByInt(r, k) ==
    IF k >= 0 THEN MulCarry(r, k, 0) ELSE Negate(MulCarry(r, -k, 0))

\* static_cast<uint32_t>(v) of a signed int v (pid_t): v modulo 2^32.
\* (U32FromIntLow: a cast to 16 bits.)
U32FromIntLow(v) == <<v % Base, 0>>
U32FromInt(v) ==
    IF v >= 0 THEN <<v % Base, v \div Base>>
    ELSE LET w == (v + 2147483647) + 1
         IN  <<w % Base, (w \div Base) + (Base \div 2)>>

\* static_cast<uint32_t>(d) of a DWORD d: same width, same bits.
U32FromDword(d) == <<d[1] % Base, d[2] % Base>>

\* --------------------------------------------------------------- platform
\* The branch of the #ifdef _WIN32 / __APPLE__ / Linux conditionals the
\* library was built with.
Platforms == {"Windows", "Apple", "Linux"}

\* Status an operating-system call returns.  GetComputerNameA and
\* GlobalMemoryStatusEx return a BOOL, non-zero on success; gethostname,
\* sysctl and sysinfo return 0 on success and -1 on failure.
OsStatus(p, ok) ==
    IF p = "Windows" THEN (IF ok THEN 1 ELSE 0) ELSE (IF ok THEN 0 ELSE -1)

\* ------------------------------------------------------------- host name
\* Bytes are strings: the terminator, what the caller's memory holds before
\* the call, and the characters of the host name.
NUL == "NUL"
Fill == "?"
NameChar(j) == <<"h", "o", "s", "t", "n", "a", "m", "e">>[j]
HostNames == { [j \in 1 .. k |-> NameChar(j)] : k \in 0 .. MaxNameLen }
BufferSizes == -1 .. BufCap
SmallBufferSizes == {0, BufCap}

\* Bytes data stored at the start of memory m; bytes past the end of the
\* modelled memory are not kept.
Write(m, data) ==
    [j \in 1 .. Len(m) |-> IF j <= Len(data) THEN data[j] ELSE m[j]]

\* gethostname(buffer, len) / GetComputerNameA(buffer, &size): the outcomes
\* of a call that reports name into a buffer of len bytes.  The name and
\* its terminator are stored when they fit; a name that does not fit is
\* truncated to len bytes (reported as success or as failure, by platform)
\* or not stored at all; a failing call may store nothing.
OsHostNameOutcomes(name, len) ==
    LET full == name \o <<NUL>>
        cut  == SubSeq(full, 1, Min(len, Len(full)))
    IN  {[ok |-> TRUE, data |-> cut], [ok |-> FALSE, data |-> <<>>]}
        \cup (IF Len(full) > len THEN {[ok |-> FALSE, data |-> cut]} ELSE {})

\* Line 43: the argument check of GetComputerNameString.
InvalidArgs(isNull, size) == isNull \/ size <= 0

\* Lines 48 and 51: the length handed to the operating system.
\* (HostNameLenPlusOne: one more, as for a terminator.)
HostNameLenPlusOne(size) == size + 1
HostNameLen(size) == size

\* Lines 49 and 51: the status of the host-name call as a bool.
\* (HostNameResultSwapped: the two conventions exchanged.)
HostNameResultSwapped(p, rc) == IF p = "Windows" THEN rc = 0 ELSE rc # 0
HostNameResult(p, rc) == IF p = "Windows" THEN rc # 0 ELSE rc = 0

\* ---------------------------------------------------------------- memory
\* Byte counts GlobalMemoryStatusEx (ullTotalPhys) and sysctl HW_MEMSIZE
\* report.
ByteSamples == { <<0, 0, 4, 0>>, <<0, 49152, 7, 0>> }
\* struct sysinfo: totalram is an unsigned long (two limbs on ILP32, four
\* on LP64), mem_unit an unsigned int.
SysinfoSamples ==
    { [totalram |-> <<0, 32>>,        mem_unit |-> 4096],
      [totalram |-> <<57344, 61>>,    mem_unit |-> 4096],
      [totalram |-> <<0, 32768>>,     mem_unit |-> 1],
      [totalram |-> <<0, 64, 0, 0>>,  mem_unit |-> 4096] }

\* Lines 60-63.
WindowsTotalPhys(rc, ullTotalPhys) == IF rc # 0 THEN ullTotalPhys ELSE Zero64

\* Lines 69-72.
AppleMemSize(rc, memSize) == IF rc = 0 THEN memSize ELSE Zero64

\* Line 76: static_cast<uint64_t>(info.totalram) * info.mem_unit.
\* (ScaleToBytesUnscaled: the multiplication left out.)
ScaleToBytesUnscaled(info) == ZeroExtend(info.totalram, 4)
ScaleToBytes(info) == MulCarry(ZeroExtend(info.totalram, 4), info.mem_unit, 0)

\* Lines 75-78.  (LinuxTotalRamUnchecked: the status not tested.)
LinuxTotalRamUnchecked(rc, info) == ScaleToBytes(info)
LinuxTotalRam(rc, info) == IF rc = 0 THEN ScaleToBytes(info) ELSE Zero64

\* ------------------------------------------------------------ process id
\* getpid() returns a pid_t, a signed int; GetCurrentProcessId() a DWORD.
PidSamples == {1, 65535, 65536, 2147483647}
DwordSamples == { <<4, 0>>, <<0, 32768>>, <<65535, 65535>> }

\* ------------------------------------------------------------- factorial
FactInputs == (-MaxNeg .. MaxN) \cup {INT_MAX}
SmallFactInputs == -1 .. SmallN

\* Line 31.  (IsNegativeOrZero: n <= 0.)
IsNegativeOrZero(n) == n <= 0
IsNegative(n) == n < 0

\* Line 32.
IsZeroOrOne(n) == n = 0 \/ n = 1

\* Line 34: uint64_t result = 1 declares an automatic variable: it is
\* initialised on every call and gone at the return.  (A static one is
\* initialised once and keeps its value from call to call.)
StaticResult == FALSE
AutomaticResult == TRUE

\* Line 35: int i = 2.
LoopStart == 2

\* Lines 34-35: result and i are automatic variables, one instance per call
\* in the frame of the calling thread.  (SharedFrame: one instance for all
\* threads.)
SharedFrame(t) == 1
FrameOf(t) == t

\* ------------------------------------------------------------------ state
VARIABLES
    platform,    \* the platform branch the library was built with
    pc,          \* pc[t]: where thread t is in its call
    op,          \* op[t]: the exported function thread t called last
    n,           \* n[t]: argument of CalculateFactorial
    bufNull,     \* bufNull[t]: buffer argument is nullptr
    bufferSize,  \* bufferSize[t]: bufferSize argument
    mem,         \* mem[t]: the caller's memory at the buffer address
    mem0,        \* mem0[t]: mem[t] when the call was made
    i,           \* i[f]: loop counter of calculateFactorialRuntime, frame f
    result,      \* result[f]: accumulator of calculateFactorialRuntime
    ret,         \* ret[t]: value the call returned
    os,          \* os[t]: the operating-system call made by the call
    ub,          \* ub[t]: ++i was evaluated with i = INT_MAX
    memo         \* an earlier completed call, kept for comparison

vars == <<platform, pc, op, n, bufNull, bufferSize, mem, mem0, i, result,
          ret, os, ub, memo>>

NoRet == <<>>
NoOs == [calls |-> 0, ok |-> FALSE, rc |-> 0, val |-> <<>>, data |-> <<>>]
NoMemo == [op |-> "none"]
FreshMem == [j \in 1 .. BufCap |-> Fill]

Init ==
    /\ platform \in Platforms
    /\ pc = [t \in Threads |-> "idle"]
    /\ op = [t \in Threads |-> "none"]
    /\ n = [t \in Threads |-> 0]
    /\ bufNull = [t \in Threads |-> TRUE]
    /\ bufferSize = [t \in Threads |-> 0]
    /\ mem = [t \in Threads |-> FreshMem]
    /\ mem0 = [t \in Threads |-> FreshMem]
    /\ i = [f \in Threads |-> LoopStart]
    /\ result = [f \in Threads |-> One64]
    /\ ret = [t \in Threads |-> NoRet]
    /\ os = [t \in Threads |-> NoOs]
    /\ ub = [t \in Threads |-> FALSE]
    /\ memo = NoMemo

CanCall(t) == pc[t] \in {"idle", "done"}

\* The caller's side of a call of f with arguments (v, b, s): the per-call
\* record is started afresh, and the caller's memory holds Fill.
Enter(t, f, label, v, b, s) ==
    /\ CanCall(t)
    /\ op' = [op EXCEPT ![t] = f]
    /\ pc' = [pc EXCEPT ![t] = label]
    /\ n' = [n EXCEPT ![t] = v]
    /\ bufNull' = [bufNull EXCEPT ![t] = b]
    /\ bufferSize' = [bufferSize EXCEPT ![t] = s]
    /\ mem' = [mem EXCEPT ![t] = FreshMem]
    /\ mem0' = [mem0 EXCEPT ![t] = FreshMem]
    /\ ret' = [ret EXCEPT ![t] = NoRet]
    /\ os' = [os EXCEPT ![t] = NoOs]
    /\ ub' = [ub EXCEPT ![t] = FALSE]
    /\ UNCHANGED <<platform, i, result, memo>>

Return(t, v) ==
    /\ ret' = [ret EXCEPT ![t] = v]
    /\ pc' = [pc EXCEPT ![t] = "done"]

\* The return of calculateFactorialRuntime with value v: the frame's
\* automatic variables are gone, which the model shows as their values at
\* Init.
Leave(t, v, r) ==
    /\ Return(t, v)
    /\ i' = [i EXCEPT ![FrameOf(t)] = LoopStart]
    /\ result' = [result EXCEPT
                    ![FrameOf(t)] = IF AutomaticResult THEN One64 ELSE r]

\* ------------------------------------------------ CalculateFactorial(n)
\* Lines 92-96: the call, with argument v drawn from N.
CallFactorial(t, N) ==
    \E v \in N : Enter(t, "CalculateFactorial", "fact", v, TRUE, 0)

\* Lines 31-35: the two early returns, then result = 1 and i = 2.
FactEntry(t) ==
    /\ pc[t] = "fact"
    /\ IF IsNegative(n[t])
         THEN Return(t, Zero64) /\ UNCHANGED <<i, result>>
       ELSE IF IsZeroOrOne(n[t])
         THEN Return(t, One64) /\ UNCHANGED <<i, result>>
       ELSE /\ result' = [result EXCEPT
                          ![FrameOf(t)] = IF AutomaticResult THEN One64 ELSE @]
            /\ i' = [i EXCEPT ![FrameOf(t)] = LoopStart]
            /\ pc' = [pc EXCEPT ![t] = "loop"]
            /\ UNCHANGED ret
    /\ UNCHANGED <<platform, op, n, bufNull, bufferSize, mem, mem0, os, ub,
                   memo>>

\* Lines 35-37, one iteration: i <= n holds, result *= i, ++i.  ++i with
\* i = INT_MAX is a signed overflow, undefined behaviour: a build that wraps
\* continues the loop from INT_MIN, a build that derived the trip count from
\* the absence of overflow leaves the loop and returns.
FactIter(t) ==
    LET f == FrameOf(t)
        r == MulU64ByInt(result[f], i[f])
    IN  /\ pc[t] = "loop"
        /\ i[f] <= n[t]
        /\ IF i[f] < INT_MAX
             THEN /\ result' = [result EXCEPT ![f] = r]
                  /\ i' = [i EXCEPT ![f] = @ + 1]
                  /\ UNCHANGED <<pc, ret, ub>>
             ELSE /\ ub' = [ub EXCEPT ![t] = TRUE]
                  /\ \/ /\ result' = [result EXCEPT ![f] = r]
                        /\ i' = [i EXCEPT ![f] = INT_MIN]
                        /\ UNCHANGED <<pc, ret>>
                     \/ Leave(t, r, r)
        /\ UNCHANGED <<platform, op, n, bufNull, bufferSize, mem, mem0, os,
                       memo>>

\* Lines 35 and 38: i <= n fails, return result.
FactExit(t) ==
    /\ pc[t] = "loop"
    /\ ~(i[FrameOf(t)] <= n[t])
    /\ Leave(t, result[FrameOf(t)], result[FrameOf(t)])
    /\ UNCHANGED <<platform, op, n, bufNull, bufferSize, mem, mem0, os, ub,
                   memo>>

\* ------------------------------ GetComputerNameString(buffer, bufferSize)
\* Lines 42-53: the call.  The buffer is nullptr or the address of the
\* caller's memory; bufferSize is drawn from Sizes.
CallHostName(t, Sizes) ==
    \E b \in BOOLEAN, s \in Sizes :
       Enter(t, "GetComputerNameString", "host", 0, b, s)

\* Lines 43-45.
HostEntry(t) ==
    /\ pc[t] = "host"
    /\ IF InvalidArgs(bufNull[t], bufferSize[t])
         THEN Return(t, FALSE)
         ELSE pc' = [pc EXCEPT ![t] = "host_os"] /\ UNCHANGED ret
    /\ UNCHANGED <<platform, op, n, bufNull, bufferSize, mem, mem0, i,
                   result, os, ub, memo>>

\* Lines 47-52: the operating-system call and the return of its status.
HostOsCall(t) ==
    /\ pc[t] = "host_os"
    /\ \E name \in HostNames :
         \E out \in OsHostNameOutcomes(name, HostNameLen(bufferSize[t])) :
           LET rc == OsStatus(platform, out.ok)
           IN  /\ mem' = [mem EXCEPT ![t] = Write(@, out.data)]
               /\ os' = [os EXCEPT ![t] = [calls |-> @.calls + 1,
                                           ok |-> out.ok, rc |-> rc,
                                           val |-> name,
                                           data |-> out.data]]
               /\ Return(t, HostNameResult(platform, rc))
    /\ UNCHANGED <<platform, op, n, bufNull, bufferSize, mem0, i, result,
                   ub, memo>>

\* ------------------------------------------- GetTotalPhysicalMemory()
CallMemory(t) ==
    Enter(t, "GetTotalPhysicalMemory", "mem", 0, TRUE, 0)

\* Lines 58-63, 65-72, 74-78: the query and the return.  A failing query
\* leaves memStatus and info, which are uninitialised, holding anything;
\* memSize was initialised to 0.
MemQuery(t) ==
    /\ pc[t] = "mem"
    /\ \E ok \in BOOLEAN :
         LET rc == OsStatus(platform, ok)
             Done(v, r) ==
                 /\ os' = [os EXCEPT ![t] = [calls |-> @.calls + 1,
                                             ok |-> ok, rc |-> rc,
                                             val |-> v, data |-> <<>>]]
                 /\ Return(t, r)
         IN  CASE platform = "Windows" ->
                    \E v \in ByteSamples : Done(v, WindowsTotalPhys(rc, v))
               [] platform = "Apple" ->
                    \E v \in (IF ok THEN ByteSamples ELSE {Zero64}) :
                       Done(v, AppleMemSize(rc, v))
               [] platform = "Linux" ->
                    \E v \in SysinfoSamples : Done(v, LinuxTotalRam(rc, v))
    /\ UNCHANGED <<platform, op, n, bufNull, bufferSize, mem, mem0, i,
                   result, ub, memo>>

\* ---------------------------------------------- GetCurrentProcessID()
CallPid(t) ==
    Enter(t, "GetCurrentProcessID", "pid", 0, TRUE, 0)

\* Lines 84-88.
PidQuery(t) ==
    /\ pc[t] = "pid"
    /\ IF platform = "Windows"
         THEN \E d \in DwordSamples :
                /\ os' = [os EXCEPT ![t] = [calls |-> @.calls + 1,
                                            ok |-> TRUE, rc |-> 0,
                                            val |-> d, data |-> <<>>]]
                /\ Return(t, U32FromDword(d))
         ELSE \E p \in PidSamples :
                /\ os' = [os EXCEPT ![t] = [calls |-> @.calls + 1,
                                            ok |-> TRUE, rc |-> 0,
                                            val |-> p, data |-> <<>>]]
                /\ Return(t, U32FromInt(p))
    /\ UNCHANGED <<platform, op, n, bufNull, bufferSize, mem, mem0, i,
                   result, ub, memo>>

\* -------------------------------------------------------- specifications
\* One thread calling the library, one call after another.
Next ==
    \E t \in MainThread :
       \/ CallFactorial(t, FactInputs)
       \/ FactEntry(t)
       \/ FactIter(t)
       \/ FactExit(t)
       \/ CallHostName(t, BufferSizes)
       \/ HostEntry(t)
       \/ HostOsCall(t)
       \/ CallMemory(t)
       \/ MemQuery(t)
       \/ CallPid(t)
       \/ PidQuery(t)

Spec == Init /\ [][Next]_vars

\* Calls compared with an earlier call: one thread, small arguments, and an
\* observer that keeps one completed call (arguments, what the operating
\* system reported to it, what it returned and stored) in memo.
Snapshot(t) ==
    [op |-> op[t], n |-> n[t], bufNull |-> bufNull[t],
     bufferSize |-> bufferSize[t], ok |-> os[t].ok, val |-> os[t].val,
     data |-> os[t].data, ret |-> ret[t], mem |-> mem[t]]

Observe(t) ==
    /\ pc[t] = "done"
    /\ memo = NoMemo
    /\ memo' = Snapshot(t)
    /\ UNCHANGED <<platform, pc, op, n, bufNull, bufferSize, mem, mem0, i,
                   result, ret, os, ub>>

IdemNext ==
    \E t \in MainThread :
       \/ CallFactorial(t, SmallFactInputs)
       \/ FactEntry(t)
       \/ FactIter(t)
       \/ FactExit(t)
       \/ CallHostName(t, SmallBufferSizes)
       \/ HostEntry(t)
       \/ HostOsCall(t)
       \/ CallMemory(t)
       \/ MemQuery(t)
       \/ CallPid(t)
       \/ PidQuery(t)
       \/ Observe(t)

IdemSpec == Init /\ [][IdemNext]_vars

\* Several threads calling the library at once, their steps interleaved.
ConcNext ==
    \E t \in Threads :
       \/ CallFactorial(t, SmallFactInputs)
       \/ FactEntry(t)
       \/ FactIter(t)
       \/ FactExit(t)
       \/ CallHostName(t, SmallBufferSizes)
       \/ HostEntry(t)
       \/ HostOsCall(t)
       \/ CallMemory(t)
       \/ MemQuery(t)
       \/ CallPid(t)
       \/ PidQuery(t)

ConcSpec == Init /\ [][ConcNext]_vars

\* ----------------------------------------------------- reference values
\* x * k + c as a natural number: the result grows by the limbs the carry
\* needs.
RECURSIVE MulGrow(_, _, _)
MulGrow(x, k, c) ==
    IF x = <<>>
      THEN (IF c = 0 THEN <<>> ELSE <<c % Base>> \o MulGrow(x, k, c \div Base))
      ELSE LET p == Head(x) * k + c
           IN  <<p % Base>> \o MulGrow(Tail(x), k, p \div Base)

\* m! as a natural number.
RECURSIVE BigFactorial(_)
BigFactorial(m) == IF m <= 1 THEN <<1>> ELSE MulGrow(BigFactorial(m - 1), m, 0)

\* A natural number modulo 2^64.
Low64(x) == [j \in 1 .. 4 |-> IF j <= Len(x) THEN x[j] ELSE 0]

RefFactorial(m) == IF m < 0 THEN Zero64 ELSE Low64(BigFactorial(m))

Returned(t, f) == pc[t] = "done" /\ op[t] = f

ValidArgs(t) == ~bufNull[t] /\ bufferSize[t] > 0

FactorialAgrees(t) == ret[t] = RefFactorial(n[t])

HostNameAgrees(t) ==
    IF ValidArgs(t) THEN os[t].calls = 1 /\ ret[t] = os[t].ok
                    ELSE ret[t] = FALSE

MemoryAgrees(t) ==
    IF ~os[t].ok THEN ret[t] = Zero64
    ELSE IF platform = "Linux"
      THEN ret[t] = Low64(MulGrow(os[t].val.totalram, os[t].val.mem_unit, 0))
      ELSE ret[t] = os[t].val

\* The uint32_t ret holds the pid the operating system reported.
PidAgrees(t) ==
    IF platform = "Windows" THEN ret[t] = os[t].val
    ELSE /\ ret[t][2] < Base \div 2
         /\ ret[t][1] + ret[t][2] * Base = os[t].val

\* ------------------------------------------------------------------ claims
\* C1: CalculateFactorial(n) returns 0 for n < 0, 1 for n = 0 and n = 1, and
\* otherwise n! modulo 2^64; in particular 120 for 5, 2432902008176640000
\* (0x21C3677C82B40000) for 20 and 14197454024290336768
\* (0xC5077D36B8C40000) for 21.
C1_FactorialMatchesReference ==
    \A t \in Threads :
       Returned(t, "CalculateFactorial") =>
          /\ FactorialAgrees(t)
          /\ n[t] < 0 => ret[t] = Zero64
          /\ n[t] \in {0, 1} => ret[t] = One64
          /\ n[t] = 5 => ret[t] = <<120, 0, 0, 0>>
          /\ n[t] = 20 => ret[t] = <<0, 33460, 26492, 8643>>
          /\ n[t] = 21 => ret[t] = <<0, 47300, 32054, 50439>>

C1_Witness ==
    /\ Returned(1, "CalculateFactorial")
    /\ n[1] = 21
    /\ ret[1] = <<0, 47300, 32054, 50439>>

\* C2: GetComputerNameString returns false when buffer is null or
\* bufferSize <= 0; with valid arguments it makes the operating-system call
\* and returns true exactly when that call reports success.
C2_HostNameResult ==
    \A t \in Threads :
       Returned(t, "GetComputerNameString") => HostNameAgrees(t)

C2_Witness ==
    /\ Returned(1, "GetComputerNameString")
    /\ ValidArgs(1)
    /\ os[1].calls = 1
    /\ ~os[1].ok
    /\ ret[1] = FALSE

\* C3: on every platform branch GetTotalPhysicalMemory returns 0 when the
\* operating-system query fails, whatever the query left in its structure.
C3_FailedQueryReturnsZero ==
    \A t \in Threads :
       (Returned(t, "GetTotalPhysicalMemory") /\ ~os[t].ok) =>
          ret[t] = Zero64

C3_Witness ==
    /\ Returned(1, "GetTotalPhysicalMemory")
    /\ platform = "Linux"
    /\ os[1].calls = 1
    /\ ~os[1].ok
    /\ os[1].val.totalram # <<0, 0>>
    /\ ret[1] = Zero64

\* C4: on the Linux branch a successful query returns totalram * mem_unit
\* modulo 2^64, which is not the unscaled totalram when mem_unit is not 1.
C4_LinuxScalesByMemUnit ==
    \A t \in Threads :
       (Returned(t, "GetTotalPhysicalMemory") /\ platform = "Linux"
          /\ os[t].ok) =>
          /\ ret[t] = Low64(MulGrow(os[t].val.totalram, os[t].val.mem_unit, 0))
          /\ os[t].val.mem_unit # 1 => ret[t] # Low64(os[t].val.totalram)

C4_Witness ==
    /\ Returned(1, "GetTotalPhysicalMemory")
    /\ platform = "Linux"
    /\ os[1].ok
    /\ os[1].val = [totalram |-> <<0, 32>>, mem_unit |-> 4096]
    /\ ret[1] = <<0, 0, 2, 0>>

\* C5: a call of GetComputerNameString makes at most one operating-system
\* call, the caller's memory changes only at positions 0 .. bufferSize-1
\* (1 .. bufferSize here), and a call rejected for a null buffer or
\* bufferSize <= 0 makes no operating-system call and leaves the memory as
\* it was.
C5_OneBoundedWrite ==
    \A t \in Threads :
       op[t] = "GetComputerNameString" =>
          /\ os[t].calls <= 1
          /\ \A j \in 1 .. BufCap : j > bufferSize[t] => mem[t][j] = mem0[t][j]
          /\ os[t].calls = 0 => mem[t] = mem0[t]
          /\ ~ValidArgs(t) => os[t].calls = 0 /\ mem[t] = mem0[t]

C5_Witness ==
    /\ Returned(1, "GetComputerNameString")
    /\ bufferSize[1] = 1
    /\ os[1].calls = 1
    /\ Len(os[1].val) = MaxNameLen
    /\ mem[1][1] # mem0[1][1]
    /\ \A j \in 2 .. BufCap : mem[1][j] = mem0[1][j]

\* C6: a call with the arguments of an earlier call, to which the operating
\* system reports what it reported to the earlier one, returns what the
\* earlier call returned and leaves in the buffer what it left, whatever
\* calls were made in between.
SameQuestion(t) ==
    /\ memo.op = op[t]
    /\ memo.n = n[t]
    /\ memo.bufNull = bufNull[t]
    /\ memo.bufferSize = bufferSize[t]
    /\ memo.ok = os[t].ok
    /\ memo.val = os[t].val
    /\ memo.data = os[t].data

C6_Idempotent ==
    \A t \in Threads :
       (pc[t] = "done" /\ SameQuestion(t)) =>
          memo.ret = ret[t] /\ memo.mem = mem[t]

C6_Witness ==
    /\ pc[1] = "done"
    /\ op[1] = "CalculateFactorial"
    /\ n[1] = SmallN
    /\ SameQuestion(1)
    /\ memo.ret = ret[1]
    /\ ret[1] = RefFactorial(SmallN)

\* C7: with several threads calling at once, each call returns what it
\* returns when run alone on the same arguments and operating-system
\* reports, and its buffer holds what the operating system stored for it.
C7_NoInterference ==
    \A t \in Threads :
       pc[t] = "done" =>
          /\ op[t] = "CalculateFactorial" => FactorialAgrees(t)
          /\ op[t] = "GetComputerNameString" =>
                HostNameAgrees(t) /\ mem[t] = Write(mem0[t], os[t].data)
          /\ op[t] = "GetTotalPhysicalMemory" => MemoryAgrees(t)
          /\ op[t] = "GetCurrentProcessID" => PidAgrees(t)

C7_Witness ==
    /\ Returned(1, "CalculateFactorial")
    /\ n[1] = SmallN
    /\ FactorialAgrees(1)
    /\ pc[2] = "loop"
    /\ n[2] = SmallN
    /\ i[2] = SmallN

\* C8: GetCurrentProcessID returns the process id the operating system
\* reports, as a 32-bit unsigned value.
C8_PidPreserved ==
    \A t \in Threads :
       Returned(t, "GetCurrentProcessID") => os[t].calls = 1 /\ PidAgrees(t)

C8_Witness ==
    /\ Returned(1, "GetCurrentProcessID")
    /\ platform # "Windows"
    /\ os[1].val = 2147483647
    /\ ret[1] = <<65535, 32767>>

\* C9: in every call of CalculateFactorial the loop counter i stays within
\* the range of int: ++i is never evaluated with i = INT_MAX.
C9_CounterStaysInRange == \A t \in Threads : ~ub[t]

\* C10 as stated: CalculateFactorial returns 0 exactly when n < 0.
C10_ZeroOnlyForNegative ==
    \A t \in Threads :
       Returned(t, "CalculateFactorial") => (ret[t] = Zero64 <=> n[t] < 0)

\* C10 as amended: CalculateFactorial returns 0 exactly when n < 0 or
\* n >= 66, n! being a multiple of 2^64 from 66 on; for 0 <= n <= 65 the
\* result is not 0.
C10_ZeroForNegativeOrFrom66 ==
    \A t \in Threads :
       Returned(t, "CalculateFactorial") =>
          (ret[t] = Zero64 <=> (n[t] < 0 \/ n[t] >= 66))

C10_Witness ==
    /\ Returned(1, "CalculateFactorial")
    /\ n[1] = 66
    /\ ret[1] = Zero64

====
